---- MODULE Spec2Model ----
(***************************************************************************)
(* A model of cloudigrade's AWS helper module util/aws/ec2.py, of the      *)
(* verify_account_permissions task and of internal.prometheus.             *)
(*                                                                         *)
(* The module holds several specifications over one set of variables; each *)
(* specification moves only the variables of its own subsystem:            *)
(*   SpecPerm   concurrent add/remove_snapshot_ownership calls             *)
(*   SpecSeq    the same calls issued by a single caller, in sequence      *)
(*   SpecCopy   copy_ami requests against the AWS control plane            *)
(*   SpecVerify verify_account_permissions tasks and availability checks   *)
(*   SpecDup     duplicate grants of one snapshot, duplicate revokes of    *)
(*               another, called concurrently                              *)
(*   SpecDisjoint grant, revoke and copy_ami called concurrently, each for *)
(*               a resource of its own                                     *)
(*   SpecInspect single calls of the describe and check functions          *)
(*   SpecMetrics repeated calls of initialize_cached_metrics               *)
(***************************************************************************)
EXTENDS Integers, Sequences, FiniteSets, TLC

(***************************************************************************)
(* Bounds of the model.                                                    *)
(***************************************************************************)
\* How many AWS accounts other than the primary one may hold a permission.
MaxOtherAccounts == 1

\* How many customer accounts hand a session to copy_ami.
MaxCustomers == 2

\* The longest source image name, in characters.
MaxNameLen == 200

\* How many EC2 instances the customer's account holds, over all regions.
MaxInstances == 3

\* How many block device mappings an image has.
MaxMappings == 2

\* How many entries CACHED_GAUGE_METRICS_INFO has at most.
MaxMetrics == 3

\* How often initialize_cached_metrics is called in one process.
MaxInitCalls == 3

(***************************************************************************)
(* Snapshot permissions: add_snapshot_ownership, remove_snapshot_ownership *)
(***************************************************************************)
VARIABLES
    perms,      \* AWS side: snapshot id -> its createVolumePermission list
    pc,         \* worker -> where its current call stands
    snapshot,   \* worker -> the snapshot its current call is about
    lastCall    \* worker -> its last completed call: the operation, the
                \* snapshot, the response its describe_attribute call
                \* returned and the result (returned or raised)

permVars == <<perms, pc, snapshot, lastCall>>

(***************************************************************************)
(* Image copy: get_ami, check_image_state, copy_ami                        *)
(***************************************************************************)
VARIABLES
    cpc,        \* request -> where its copy_ami call stands
    args,       \* request -> the arguments copy_ami was called with
    checked,    \* request -> what check_image_state raised inside get_ami
    old_image,  \* request -> the image get_ami returned, or None
    new_image,  \* request -> the response of copy_image, or None
    calls,      \* request -> the AWS calls it issued, in order
    outcome,    \* request -> what copy_ami returned or raised
    awsImages   \* AWS side: the images copy_image created, with their tags

copyVars == <<cpc, args, checked, old_image, new_image, calls, outcome, awsImages>>

(***************************************************************************)
(* Account verification: verify_account_permissions, availability_check    *)
(***************************************************************************)
VARIABLES
    accounts,   \* account ARN -> the cloud account record stored for it
    verified,   \* the last verify_account_permissions call and its effects
    checkedSource \* the last availability_check request and its response

verifyVars == <<accounts, verified, checkedSource>>

(***************************************************************************)
(* Single calls: describe_instances_everywhere, describe_image,            *)
(* get_ami_snapshot_id, create_volume, the state checks, is_running        *)
(***************************************************************************)
VARIABLES
    called      \* the last call: the function, its input, the calls it
                \* issued to AWS and what it returned or raised

inspectVars == <<called>>

(***************************************************************************)
(* internal.prometheus: the cached gauge metrics                           *)
(***************************************************************************)
VARIABLES
    CACHED_GAUGE_METRICS_INFO,  \* the metrics the module declares
    CUSTOM_GAUGE_METRICS,       \* metric name -> the Gauge created for it
    mock_gauge,                 \* every Gauge(...) call made so far
    initialized                 \* the calls of initialize_cached_metrics:
                                \* how many, and for the last one the dict
                                \* before it and the Gauge calls it made

metricVars ==
    <<CACHED_GAUGE_METRICS_INFO, CUSTOM_GAUGE_METRICS, mock_gauge, initialized>>

vars == <<permVars, copyVars, verifyVars, inspectVars, metricVars>>

\* The account id _get_primary_account_id() returns.
PrimaryAccountId == 0

UserIds == 0 .. MaxOtherAccounts

Snapshots == {"snap-1", "snap-2"}

Workers == {"w1", "w2"}

Range(s) == {s[i] : i \in 1 .. Len(s)}

\* The lists AWS can hold as a createVolumePermission attribute: each user
\* id at most once.
PermissionLists ==
    {l \in UNION {[1 .. n -> UserIds] : n \in 0 .. (MaxOtherAccounts + 1)} :
        \A i, j \in 1 .. Len(l) : i # j => l[i] # l[j]}

\* How often user_id occurs in a permission list.
Entries(list, user_id) == Cardinality({i \in 1 .. Len(list) : list[i] = user_id})

NoCall ==
    [op |-> "none", snap |-> "none", response |-> <<>>, result |-> "none",
     before |-> "none"]

\* The result of the worker's previous call when that call was the same
\* operation on the same snapshot, "none" otherwise.
ResultBefore(w, op, s) ==
    IF lastCall[w].op = op /\ lastCall[w].snap = s
    THEN lastCall[w].result
    ELSE "none"

\* A modify_attribute that appends an entry for every add it is sent.
ModifyAttributeAddAppends(list, user_id) == Append(list, user_id)

\* snapshot.modify_attribute(OperationType="add", UserIds=[user_id]) as AWS
\* applies it: the permission is a set, adding a member twice changes nothing.
ModifyAttributeAdd(list, user_id) ==
    IF user_id \in Range(list) THEN list ELSE Append(list, user_id)

\* snapshot.modify_attribute(OperationType="remove", UserIds=[user_id]).
ModifyAttributeRemove(list, user_id) ==
    SelectSeq(list, LAMBDA u : u # user_id)

\* A describe_attribute on a snapshot object kept from the first call and
\* shared by all calls.
DescribeAttributeOfCachedSnapshot(s) == perms["snap-1"]

\* snapshot.describe_attribute(Attribute="createVolumePermission")
\*   ["CreateVolumePermissions"], each entry reduced to its UserId.
DescribeAttribute(s) == perms[s]

\* A read-back that trusts the write: no check of the list at all.
AddOwnershipResultTrustsWrite(resp, user_id) == "ok"

\* A read-back loop that decides on the first entry of the list alone.
AddOwnershipResultFirstOnly(resp, user_id) ==
    IF Len(resp) > 0 /\ resp[1] = user_id
    THEN "ok"
    ELSE "AwsSnapshotNotOwnedError"

\* The read-back loop of add_snapshot_ownership: return on the first entry
\* with the user id, raise AwsSnapshotNotOwnedError when the loop ends.
AddOwnershipResult(resp, user_id) ==
    IF \E i \in 1 .. Len(resp) : resp[i] = user_id
    THEN "ok"
    ELSE "AwsSnapshotNotOwnedError"

\* A read-back loop that decides on the first entry of the list alone.
RemoveOwnershipResultFirstOnly(resp, user_id) ==
    IF Len(resp) > 0 /\ resp[1] = user_id
    THEN "AwsSnapshotOwnedError"
    ELSE "ok"

\* The read-back loop of remove_snapshot_ownership: raise
\* AwsSnapshotOwnedError on the first entry with the user id, else return.
RemoveOwnershipResult(resp, user_id) ==
    IF \E i \in 1 .. Len(resp) : resp[i] = user_id
    THEN "AwsSnapshotOwnedError"
    ELSE "ok"

\* The snapshot permission variables while another subsystem runs.
InitPermFixed ==
    /\ perms = [s \in Snapshots |-> <<>>]
    /\ pc = [w \in Workers |-> "idle"]
    /\ snapshot = [w \in Workers |-> "none"]
    /\ lastCall = [w \in Workers |-> NoCall]

InitPermVars ==
    /\ perms \in [Snapshots -> PermissionLists]
    /\ pc = [w \in Workers |-> "idle"]
    /\ snapshot = [w \in Workers |-> "none"]
    /\ lastCall = [w \in Workers |-> NoCall]

\* add_snapshot_ownership up to and including its modify_attribute call.
AddModify(w, s) ==
    /\ pc[w] = "idle"
    /\ perms' = [perms EXCEPT ![s] = ModifyAttributeAdd(@, PrimaryAccountId)]
    /\ pc' = [pc EXCEPT ![w] = "add_modified"]
    /\ snapshot' = [snapshot EXCEPT ![w] = s]
    /\ UNCHANGED lastCall
    /\ UNCHANGED <<copyVars, verifyVars, inspectVars, metricVars>>

\* add_snapshot_ownership from its describe_attribute call to its end.
AddVerify(w) ==
    /\ pc[w] = "add_modified"
    /\ LET resp == DescribeAttribute(snapshot[w])
       IN  lastCall' = [lastCall EXCEPT ![w] =
                [op |-> "add", snap |-> snapshot[w], response |-> resp,
                 result |-> AddOwnershipResult(resp, PrimaryAccountId),
                 before |-> ResultBefore(w, "add", snapshot[w])]]
    /\ pc' = [pc EXCEPT ![w] = "idle"]
    /\ snapshot' = [snapshot EXCEPT ![w] = "none"]
    /\ UNCHANGED perms
    /\ UNCHANGED <<copyVars, verifyVars, inspectVars, metricVars>>

\* remove_snapshot_ownership up to and including its modify_attribute call.
RemoveModify(w, s) ==
    /\ pc[w] = "idle"
    /\ perms' = [perms EXCEPT ![s] = ModifyAttributeRemove(@, PrimaryAccountId)]
    /\ pc' = [pc EXCEPT ![w] = "remove_modified"]
    /\ snapshot' = [snapshot EXCEPT ![w] = s]
    /\ UNCHANGED lastCall
    /\ UNCHANGED <<copyVars, verifyVars, inspectVars, metricVars>>

\* remove_snapshot_ownership from its describe_attribute call to its end.
RemoveVerify(w) ==
    /\ pc[w] = "remove_modified"
    /\ LET resp == DescribeAttribute(snapshot[w])
       IN  lastCall' = [lastCall EXCEPT ![w] =
                [op |-> "remove", snap |-> snapshot[w], response |-> resp,
                 result |-> RemoveOwnershipResult(resp, PrimaryAccountId),
                 before |-> ResultBefore(w, "remove", snapshot[w])]]
    /\ pc' = [pc EXCEPT ![w] = "idle"]
    /\ snapshot' = [snapshot EXCEPT ![w] = "none"]
    /\ UNCHANGED perms
    /\ UNCHANGED <<copyVars, verifyVars, inspectVars, metricVars>>

(***************************************************************************)
(* Image copy                                                              *)
(***************************************************************************)
None == "None"

Requests == {"r1", "r2"}

ImageIds == {"ami-1", "ami-2"}

Regions == {"us-east-1"}

\* A boto3 session is known by the account it is tied to. copy_ami is handed
\* "a temporary session tied to a customer account".
CustomerAccounts == 1 .. MaxCustomers

Sessions == {[account |-> a] : a \in CustomerAccounts}

\* The image id AWS gives the copy a request creates.
NewImageId(r) == IF r = "r1" THEN "ami-copy-1" ELSE "ami-copy-2"

\* Strings are sequences of characters.
Rep(c, n) == [i \in 1 .. n |-> c]

\* "cloudigrade reference copy ("
CopyNamePrefix ==
    <<"c", "l", "o", "u", "d", "i", "g", "r", "a", "d", "e", " ",
      "r", "e", "f", "e", "r", "e", "n", "c", "e", " ",
      "c", "o", "p", "y", " ", "(">>

\* AWS image names are limited to 128 characters in length.
AwsNameLimit == 128

Min(a, b) == IF a < b THEN a ELSE b

\* A slice that cuts nothing.
TruncateNothing(s, n) == s

\* s[:n]
Truncate(s, n) == SubSeq(s, 1, Min(n, Len(s)))

\* "cloudigrade reference copy ({0})".format(old_image.name)[:128]
NewName(name) == Truncate(CopyNamePrefix \o name \o <<")">>, AwsNameLimit)

ImageNameLengths == {1, 99, 100, MaxNameLen}

ImageNames == {Rep("X", n) : n \in ImageNameLengths}

\* The states AWS reports for an image.
ImageStates ==
    {"pending", "available", "invalid", "deregistered", "transient",
     "failed", "error"}

\* The error codes of the ClientError image.load() may raise, each split at
\* its dots; <<>> is a response without a Code.
ErrorCodes ==
    {<<"InvalidAMIID", "NotFound">>, <<"InvalidAMIID", "Malformed">>,
     <<"NotFound">>, <<"AuthFailure">>, <<>>}

NoError == <<"no error">>

\* What image.load() can do: raise a ClientError with some code, leave
\* meta.data None, or fill in the image's state and name.
LoadResults ==
    {[error |-> c, data |-> None, state |-> None] : c \in ErrorCodes}
    \cup {[error |-> NoError, data |-> None, state |-> None]}
    \cup {[error |-> NoError, data |-> "loaded", state |-> s] : s \in ImageStates}

\* code.endswith(".NotFound"), on a code split at its dots: the last part is
\* "NotFound" and a dot precedes it.
EndsWithNotFound(code) == Len(code) >= 2 /\ code[Len(code)] = "NotFound"

\* check_image_state with every failure reported as not ready.
CheckImageStateAllNotReady(load) ==
    IF load.error = NoError /\ load.data # None /\ load.state = "available"
    THEN [raised |-> None, message |-> None]
    ELSE [raised |-> "ImageNotReadyException", message |-> "has state"]

\* check_image_state with every unavailable state reported as terminal.
CheckImageStateAllTerminal(load) ==
    IF load.error = NoError /\ load.data # None /\ load.state = "available"
    THEN [raised |-> None, message |-> None]
    ELSE [raised |-> "AwsImageError", message |-> "has state"]

\* check_image_state: what it raises (None when it returns) and which of
\* its messages the exception carries.
check_image_state(load) ==
    IF load.error # NoError
    THEN IF EndsWithNotFound(load.error)
         THEN [raised |-> "AwsImageError", message |-> "cannot be loaded because"]
         ELSE [raised |-> "ClientError", message |-> None]
    ELSE IF load.data = None
    THEN [raised |-> "AwsImageError", message |-> "probably been deregistered"]
    ELSE IF load.state = "available"
    THEN [raised |-> None, message |-> None]
    ELSE IF load.state = "failed"
    THEN [raised |-> "AwsImageError", message |-> "has state"]
    ELSE [raised |-> "ImageNotReadyException", message |-> "has state"]

\* Whether "except AwsImageError" catches an exception of this class: of the
\* exceptions check_image_state raises, only AwsImageError itself.
IsAwsImageError(class) == class = "AwsImageError"

\* The value None where an image is expected.
NoneImage == [id |-> None, name |-> <<>>, state |-> None]

\* get_ami without the "image = None" of its except clause: the image object
\* is returned although an AwsImageError was caught.
get_ami_keeps_image(image, load) ==
    LET raised == check_image_state(load).raised
    IN  IF raised = None \/ IsAwsImageError(raised)
        THEN [image |-> image, raised |-> None]
        ELSE [image |-> NoneImage, raised |-> raised]

\* get_ami: the image it returns (None when it caught an AwsImageError) and
\* the exception it lets through (None when it returns).
get_ami(image, load) ==
    LET raised == check_image_state(load).raised
    IN  IF raised = None
        THEN [image |-> image, raised |-> None]
        ELSE IF IsAwsImageError(raised)
        THEN [image |-> NoneImage, raised |-> None]
        ELSE [image |-> NoneImage, raised |-> raised]

\* The session whose account owns every new image.
PrimarySession(session) == [account |-> PrimaryAccountId]

\* ec2 = session.client("ec2", region_name=source_region): the session
\* the copy_image and create_tags calls of copy_ami are made with.
ClientSession(session) == session

NoArgs == [session |-> None, image_id |-> None, source_region |-> None]

NoOutcome == [kind |-> None, value |-> None]

NotChecked == [raised |-> "not checked", message |-> None]

NoImage == [ImageId |-> None, OwnerId |-> -1, Name |-> <<>>, Tags |-> {}]

InitCopyVars ==
    /\ cpc = [r \in Requests |-> "idle"]
    /\ args = [r \in Requests |-> NoArgs]
    /\ checked = [r \in Requests |-> NotChecked]
    /\ old_image = [r \in Requests |-> NoneImage]
    /\ new_image = [r \in Requests |-> None]
    /\ calls = [r \in Requests |-> <<>>]
    /\ outcome = [r \in Requests |-> NoOutcome]
    /\ awsImages = [r \in Requests |-> NoImage]

\* copy_ami from its start to the end of get_ami: the image is loaded with
\* the given session and checked; copy_ami returns None when get_ami does,
\* and an exception get_ami lets through ends it.
GetAmi(r, session, image_id, source_region, name, load) ==
    /\ cpc[r] = "idle"
    /\ LET image == [id |-> image_id, name |-> name, state |-> load.state]
           got == get_ami(image, load)
       IN  /\ old_image' = [old_image EXCEPT ![r] = got.image]
           /\ cpc' = [cpc EXCEPT ![r] =
                    IF got.raised # None THEN "raised"
                    ELSE IF got.image = NoneImage THEN "returned"
                    ELSE "loaded"]
           /\ outcome' = [outcome EXCEPT ![r] =
                    IF got.raised # None
                    THEN [kind |-> "raise", value |-> got.raised]
                    ELSE IF got.image = NoneImage
                    THEN [kind |-> "return", value |-> None]
                    ELSE NoOutcome]
    /\ checked' = [checked EXCEPT ![r] = check_image_state(load)]
    /\ args' = [args EXCEPT ![r] =
            [session |-> session, image_id |-> image_id,
             source_region |-> source_region]]
    /\ calls' = [calls EXCEPT ![r] =
            Append(@, [call |-> "load", session |-> session,
                       image_id |-> image_id, result |-> load])]
    /\ UNCHANGED <<new_image, awsImages>>
    /\ UNCHANGED <<permVars, verifyVars, inspectVars, metricVars>>

\* copy_ami from the end of get_ami to the end of its copy_image call. AWS
\* either creates the copy in the account of the calling session and answers
\* with its id, or answers with an error, which copy_ami lets through.
CopyImage(r, ok) ==
    /\ cpc[r] = "loaded"
    /\ LET new_name == NewName(old_image[r].name)
           ec2 == ClientSession(args[r].session)
       IN  /\ calls' = [calls EXCEPT ![r] =
                    Append(@, [call |-> "copy_image", session |-> ec2,
                               Name |-> new_name,
                               SourceImageId |-> args[r].image_id,
                               SourceRegion |-> args[r].source_region,
                               result |-> IF ok THEN NewImageId(r) ELSE "ClientError"])]
           /\ IF ok
              THEN /\ awsImages' = [awsImages EXCEPT ![r] =
                            [ImageId |-> NewImageId(r), OwnerId |-> ec2.account,
                             Name |-> new_name, Tags |-> {}]]
                   /\ new_image' = [new_image EXCEPT ![r] = NewImageId(r)]
                   /\ cpc' = [cpc EXCEPT ![r] = "copied"]
                   /\ UNCHANGED outcome
              ELSE /\ outcome' = [outcome EXCEPT ![r] =
                            [kind |-> "raise", value |-> "ClientError"]]
                   /\ cpc' = [cpc EXCEPT ![r] = "raised"]
                   /\ UNCHANGED <<awsImages, new_image>>
    /\ UNCHANGED <<args, checked, old_image>>
    /\ UNCHANGED <<permVars, verifyVars, inspectVars, metricVars>>

\* A copy_ami that swallows the error of create_tags and returns the id of
\* the copy all the same.
CreateTagsSwallowsError(r, ok) ==
    /\ cpc[r] = "copied"
    /\ LET new_name == NewName(old_image[r].name)
           ec2 == ClientSession(args[r].session)
           Tags == {[Key |-> "Name", Value |-> new_name],
                    [Key |-> "cloudigrade original image id",
                     Value |-> old_image[r].id],
                    [Key |-> "cloudigrade original image name",
                     Value |-> old_image[r].name]}
       IN  /\ calls' = [calls EXCEPT ![r] =
                    Append(@, [call |-> "create_tags", session |-> ec2,
                               Resources |-> <<new_image[r]>>, Tags |-> Tags,
                               result |-> IF ok THEN "ok" ELSE "ClientError"])]
           /\ awsImages' = IF ok THEN [awsImages EXCEPT ![r].Tags = Tags]
                           ELSE awsImages
           /\ outcome' = [outcome EXCEPT ![r] =
                    [kind |-> "return", value |-> new_image[r]]]
           /\ cpc' = [cpc EXCEPT ![r] = "returned"]
    /\ UNCHANGED <<args, checked, old_image, new_image>>
    /\ UNCHANGED <<permVars, verifyVars, inspectVars, metricVars>>

\* copy_ami from the end of copy_image to its return: the create_tags call,
\* which AWS applies or answers with an error, and the return of the new id.
CreateTags(r, ok) ==
    /\ cpc[r] = "copied"
    /\ LET new_name == NewName(old_image[r].name)
           ec2 == ClientSession(args[r].session)
           Tags == {[Key |-> "Name", Value |-> new_name],
                    [Key |-> "cloudigrade original image id",
                     Value |-> old_image[r].id],
                    [Key |-> "cloudigrade original image name",
                     Value |-> old_image[r].name]}
       IN  /\ calls' = [calls EXCEPT ![r] =
                    Append(@, [call |-> "create_tags", session |-> ec2,
                               Resources |-> <<new_image[r]>>, Tags |-> Tags,
                               result |-> IF ok THEN "ok" ELSE "ClientError"])]
           /\ IF ok
              THEN /\ awsImages' = [awsImages EXCEPT ![r].Tags = Tags]
                   /\ outcome' = [outcome EXCEPT ![r] =
                            [kind |-> "return", value |-> new_image[r]]]
                   /\ cpc' = [cpc EXCEPT ![r] = "returned"]
              ELSE /\ outcome' = [outcome EXCEPT ![r] =
                            [kind |-> "raise", value |-> "ClientError"]]
                   /\ cpc' = [cpc EXCEPT ![r] = "raised"]
                   /\ UNCHANGED awsImages
    /\ UNCHANGED <<args, checked, old_image, new_image>>
    /\ UNCHANGED <<permVars, verifyVars, inspectVars, metricVars>>

(***************************************************************************)
(* Account verification                                                    *)
(***************************************************************************)
Arns == {"arn:aws:iam::1:role/test", "arn:aws:iam::2:role/test"}

SourceIds == {"source-1", "source-2"}

\* No AwsCloudAccount with the ARN is stored.
NoAccount == [exists |-> FALSE, is_enabled |-> FALSE, platform_source_id |-> None]

AccountRecords ==
    {NoAccount} \cup
    {[exists |-> TRUE, is_enabled |-> e, platform_source_id |-> s] :
        e \in BOOLEAN, s \in SourceIds}

FailedValidation == "failed validation. Disabling the cloud account."

CannotDisable == "Cannot disable: cloud account object does not exist"

\* CloudAccount.disable()
disable(account) == [account EXCEPT !.is_enabled = FALSE]

\* CloudAccount.enable()
enable(account) == [account EXCEPT !.is_enabled = TRUE]

\* verify_account_permissions that lets AwsCloudAccount.DoesNotExist through.
verify_account_permissions_raises(account_arn, valid, stored) ==
    IF valid
    THEN [valid |-> TRUE, raised |-> None, accounts |-> stored, lookups |-> 0,
          disabled |-> 0, log |-> <<>>]
    ELSE IF stored[account_arn].exists
    THEN [valid |-> FALSE, raised |-> None,
          accounts |-> [stored EXCEPT ![account_arn] = disable(@)],
          lookups |-> 1, disabled |-> 1, log |-> <<FailedValidation>>]
    ELSE [valid |-> FALSE, raised |-> "DoesNotExist", accounts |-> stored,
          lookups |-> 1, disabled |-> 0, log |-> <<FailedValidation>>]

\* verify_account_permissions that disables the account whatever the probe
\* said.
verify_account_permissions_always_disables(account_arn, valid, stored) ==
    IF stored[account_arn].exists
    THEN [valid |-> valid, raised |-> None,
          accounts |-> [stored EXCEPT ![account_arn] = disable(@)],
          lookups |-> 1, disabled |-> 1, log |-> <<FailedValidation>>]
    ELSE [valid |-> valid, raised |-> None, accounts |-> stored,
          lookups |-> 1, disabled |-> 0,
          log |-> <<FailedValidation, CannotDisable>>]

\* verify_account_permissions(account_arn), given what verify_permissions
\* answered and the stored accounts: what it returns, the accounts it leaves,
\* how often it looked an account up and called disable(), and what it
\* logged.
verify_account_permissions(account_arn, valid, stored) ==
    IF valid
    THEN [valid |-> TRUE, raised |-> None, accounts |-> stored, lookups |-> 0,
          disabled |-> 0, log |-> <<>>]
    ELSE IF stored[account_arn].exists
    THEN [valid |-> FALSE, raised |-> None,
          accounts |-> [stored EXCEPT ![account_arn] = disable(@)],
          lookups |-> 1, disabled |-> 1, log |-> <<FailedValidation>>]
    ELSE [valid |-> FALSE, raised |-> None, accounts |-> stored,
          lookups |-> 1, disabled |-> 0,
          log |-> <<FailedValidation, CannotDisable>>]

NotVerified ==
    [account_arn |-> None, probe |-> FALSE, existed |-> FALSE,
     before |-> <<>>, effect |-> <<>>]

NotCheckedSource == [source_id |-> None, status |-> None]

InitVerifyFixed ==
    /\ accounts = [a \in Arns |-> NoAccount]
    /\ verified = NotVerified
    /\ checkedSource = NotCheckedSource

InitVerifyVars ==
    /\ accounts \in [Arns -> AccountRecords]
    /\ verified = NotVerified
    /\ checkedSource = NotCheckedSource

\* One run of the verify_account_permissions task; probe is the answer of
\* verify_permissions.
VerifyAccountPermissions(account_arn, probe) ==
    /\ LET effect == verify_account_permissions(account_arn, probe, accounts)
       IN  /\ accounts' = effect.accounts
           /\ verified' =
                [account_arn |-> account_arn, probe |-> probe,
                 existed |-> accounts[account_arn].exists,
                 before |-> accounts, effect |-> effect]
    /\ UNCHANGED checkedSource
    /\ UNCHANGED <<permVars, copyVars, inspectVars, metricVars>>

\* One availability_check request: without a source_id it raises a
\* ValidationError, else every cloud account of that source is enabled.
AvailabilityCheck(source_id) ==
    /\ IF source_id = ""
       THEN /\ checkedSource' = [source_id |-> source_id, status |-> "ValidationError"]
            /\ UNCHANGED accounts
       ELSE /\ accounts' =
                [a \in Arns |->
                    IF accounts[a].exists /\ accounts[a].platform_source_id = source_id
                    THEN enable(accounts[a])
                    ELSE accounts[a]]
            /\ checkedSource' = [source_id |-> source_id, status |-> "HTTP_204_NO_CONTENT"]
    /\ UNCHANGED verified
    /\ UNCHANGED <<permVars, copyVars, inspectVars, metricVars>>

(***************************************************************************)
(* Single calls                                                            *)
(***************************************************************************)
NotCalled ==
    [fn |-> None, input |-> <<>>, aws |-> <<>>, result |-> <<>>,
     done |-> FALSE]

InitInspectFixed == called = NotCalled

\* The calls about to be made: a function and its input.
Calling(fn, inputs) ==
    {[fn |-> fn, input |-> input, aws |-> <<>>, result |-> <<>>,
      done |-> FALSE] : input \in inputs}

\* The call returns or raises.
Return(aws, result) ==
    called' = [called EXCEPT !.aws = aws, !.result = result, !.done = TRUE]

\* class InstanceState(enum.Enum)
pending == 0

running == 16

shutting_down == 32

terminated == 48

stopping == 64

stopped == 80

\* An is_running that takes a pending instance for a running one.
is_running_or_pending(code) == code \in {pending, running}

\* InstanceState.is_running(code)
is_running(code) == code = running

\* get_regions(session): the regions known to the session.
KnownRegions == {"us-east-1", "us-east-2"}

\* The reservations AWS groups the instances of a region in.
ReservationIds == {"r-1", "r-2"}

\* The "State" of an instance as describe_instances reports it: <<code>>,
\* or <<>> when the instance carries no state.
InstanceStateValues == {<<pending>>, <<running>>, <<terminated>>, <<>>}

\* The instances of a customer's account: each in one region and one
\* reservation; its place in the sequence is its instance id.
InstancePopulations ==
    UNION {[1 .. n -> [region : KnownRegions, reservation : ReservationIds,
                       State : InstanceStateValues]] : n \in 0 .. MaxInstances}

\* The "Instances" of one reservation of one region.
InstancesOf(population, region, reservation) ==
    LET at == [i \in 1 .. Len(population) |->
                    [InstanceId |-> i, region |-> population[i].region,
                     reservation |-> population[i].reservation,
                     State |-> population[i].State]]
    IN  SelectSeq(at, LAMBDA instance :
            instance.region = region /\ instance.reservation = reservation)

\* ec2.describe_instances() in one region: its "Reservations".
DescribeInstances(population, region) ==
    <<[Instances |-> InstancesOf(population, region, "r-1")],
      [Instances |-> InstancesOf(population, region, "r-2")]>>

\* A filter that lets every instance through.
KeepInstanceAlways(instance) == TRUE

\* instance.get("State", {}).get("Code", None) != InstanceState.terminated.value
KeepInstance(instance) ==
    instance.State = <<>> \/ instance.State[1] # terminated

\* The loop over the reservations of one region: the list is extended by the
\* instances of each reservation that pass the filter.
RECURSIVE ExtendByReservations(_, _)
ExtendByReservations(list, reservations) ==
    IF reservations = <<>>
    THEN list
    ELSE ExtendByReservations(
            list \o SelectSeq(Head(reservations).Instances, KeepInstance),
            Tail(reservations))

\* describe_instances_everywhere(session): running_instances.
describe_instances_everywhere(population) ==
    [region_name \in KnownRegions |->
        ExtendByReservations(<<>>, DescribeInstances(population, region_name))]

\* One call of describe_instances_everywhere.
DescribeInstancesEverywhere ==
    /\ called.fn = "describe_instances_everywhere"
    /\ ~called.done
    /\ Return(<<>>, describe_instances_everywhere(called.input))
    /\ UNCHANGED <<permVars, copyVars, verifyVars, metricVars>>

\* One call of InstanceState.is_running.
IsRunning ==
    /\ called.fn = "is_running"
    /\ ~called.done
    /\ Return(<<>>, is_running(called.input))
    /\ UNCHANGED <<permVars, copyVars, verifyVars, metricVars>>

\* The states AWS reports for a snapshot.
SnapshotStates == {"pending", "completed", "error", "recoverable", "recovering"}

Zones == {"us-east-1a", "us-east-1b"}

\* A check_snapshot_state that only stops at a failed snapshot.
CheckSnapshotStateOnlyError(state) ==
    IF state = "error" THEN "AwsSnapshotError" ELSE None

\* check_snapshot_state(snapshot): the exception it raises, None when it
\* returns.
check_snapshot_state(state) ==
    IF state = "completed"
    THEN None
    ELSE IF state = "error"
    THEN "AwsSnapshotError"
    ELSE "SnapshotNotReadyException"

\* The arguments of create_volume, the state AWS reports for the snapshot
\* and whether AWS accepts the create_volume call.
CreateVolumeInputs ==
    [snapshot_id : Snapshots, zone : Zones, state : SnapshotStates,
     accepted : BOOLEAN]

\* create_volume(snapshot_id, zone)
CreateVolume ==
    /\ called.fn = "create_volume"
    /\ ~called.done
    /\ LET raised == check_snapshot_state(called.input.state)
           create == [op |-> "create_volume",
                      SnapshotId |-> called.input.snapshot_id,
                      AvailabilityZone |-> called.input.zone]
       IN  IF raised # None
           THEN Return(<<>>, [raised |-> raised, id |-> None])
           ELSE IF called.input.accepted
           THEN Return(<<create>>, [raised |-> None, id |-> "vol-1"])
           ELSE Return(<<create>>, [raised |-> "ClientError", id |-> None])
    /\ UNCHANGED <<permVars, copyVars, verifyVars, metricVars>>

\* The states AWS reports for a volume.
VolumeStates ==
    {"creating", "available", "in-use", "deleting", "deleted", "error"}

\* A check_volume_state that lets an attached volume pass.
CheckVolumeStateInUsePasses(state) ==
    IF state = "creating"
    THEN "AwsVolumeNotReadyError"
    ELSE IF state \in {"deleting", "deleted", "error"}
    THEN "AwsVolumeError"
    ELSE None

\* check_volume_state(volume): the exception it raises, None when it returns.
check_volume_state(state) ==
    IF state = "creating"
    THEN "AwsVolumeNotReadyError"
    ELSE IF state \in {"in-use", "deleting", "deleted", "error"}
    THEN "AwsVolumeError"
    ELSE None

\* One call of check_volume_state.
CheckVolumeState ==
    /\ called.fn = "check_volume_state"
    /\ ~called.done
    /\ Return(<<>>, check_volume_state(called.input))
    /\ UNCHANGED <<permVars, copyVars, verifyVars, metricVars>>

DeviceNames == {"/dev/sda1", "/dev/sdb"}

\* The "Ebs" of a block device mapping: <<>> when the mapping has no "Ebs",
\* <<<<>>>> when its "Ebs" has no "SnapshotId", <<<<id>>>> otherwise.
EbsValues == {<<>>, <<<<>>>>} \cup {<<<<s>>>> : s \in Snapshots}

BlockDeviceMappings == [DeviceName : DeviceNames, Ebs : EbsValues]

\* An image object: its root device name and its block device mappings.
Amis ==
    [root_device_name : DeviceNames,
     block_device_mappings :
        UNION {[1 .. n -> BlockDeviceMappings] : n \in 0 .. MaxMappings}]

\* mapping.get("Ebs", {}).get("SnapshotId", "")
EbsSnapshotId(mapping) ==
    IF mapping.Ebs = <<>> \/ mapping.Ebs[1] = <<>>
    THEN ""
    ELSE mapping.Ebs[1][1]

\* A get_ami_snapshot_id that takes the first mapping, whatever its device.
SnapshotIdOfFirstMapping(mappings, root_device_name) ==
    IF mappings = <<>>
    THEN None
    ELSE EbsSnapshotId(Head(mappings))

\* The loop of get_ami_snapshot_id over ami.block_device_mappings: None
\* when it ends without a return.
RECURSIVE SnapshotIdOfRoot(_, _)
SnapshotIdOfRoot(mappings, root_device_name) ==
    IF mappings = <<>>
    THEN None
    ELSE IF Head(mappings).DeviceName # root_device_name
    THEN SnapshotIdOfRoot(Tail(mappings), root_device_name)
    ELSE EbsSnapshotId(Head(mappings))

\* get_ami_snapshot_id(ami)
get_ami_snapshot_id(ami) ==
    SnapshotIdOfRoot(ami.block_device_mappings, ami.root_device_name)

\* One call of get_ami_snapshot_id.
GetAmiSnapshotId ==
    /\ called.fn = "get_ami_snapshot_id"
    /\ ~called.done
    /\ Return(<<>>, get_ami_snapshot_id(called.input))
    /\ UNCHANGED <<permVars, copyVars, verifyVars, metricVars>>

\* The "Images" ec2.describe_images(ImageIds=[image_id]) answers with: the
\* descriptor of the image, or nothing.
ImagesOf(image_id) ==
    {<<>>} \cup {<<[ImageId |-> image_id, State |-> s]>> : s \in ImageStates}

\* The arguments of describe_image and what AWS answers.
DescribeImageInputs ==
    UNION {{[session |-> session, image_id |-> image_id,
             source_region |-> source_region, Images |-> images] :
                session \in Sessions, source_region \in Regions,
                images \in ImagesOf(image_id)} : image_id \in ImageIds}

\* describe_images(session, image_ids, source_region) for the one id of
\* describe_image.
describe_images(input) == input.Images

NoDescriptor == [ImageId |-> None, State |-> None]

\* describe_image(session, image_id, source_region): element 0 of the list,
\* an IndexError when the list is empty.
describe_image(input) ==
    LET images == describe_images(input)
    IN  IF Len(images) = 0
        THEN [raised |-> "IndexError", image |-> NoDescriptor]
        ELSE [raised |-> None, image |-> images[1]]

\* One call of describe_image.
DescribeImage ==
    /\ called.fn = "describe_image"
    /\ ~called.done
    /\ Return(<<[op |-> "describe_images", ImageIds |-> <<called.input.image_id>>,
                 region_name |-> called.input.source_region,
                 session |-> called.input.session]>>,
              describe_image(called.input))
    /\ UNCHANGED <<permVars, copyVars, verifyVars, metricVars>>

\* The error codes of the ClientError snapshot.copy() may raise.
CopyErrorCodes ==
    {"ResourceLimitExceeded", "SnapshotLimitExceeded", "InvalidSnapshot.NotFound",
     "ResourceLimitExceeded.NotFound", "AuthFailure", "RequestLimitExceeded"}

\* A ClientError: e.response["Error"].
CopyErrors == [Code : CopyErrorCodes, Message : {"message of AWS"}]

NoCopyError == [Code |-> None, Message |-> None]

\* What snapshot.copy(SourceRegion=source_region) can do: raise a
\* ClientError, or answer with or without the id of the new snapshot.
CopyAnswers ==
    {[error |-> e, SnapshotId |-> None] : e \in CopyErrors}
    \cup {[error |-> NoCopyError, SnapshotId |-> s] :
            s \in {"snap-copy-1", None}}

\* The arguments of copy_snapshot and what AWS answers.
CopySnapshotInputs ==
    [snapshot_id : Snapshots, source_region : Regions, answer : CopyAnswers]

\* A copy_snapshot that reports every ClientError as a copy limit error.
copy_snapshot_all_limit_errors(input) ==
    IF input.answer.error # NoCopyError
    THEN [raised |-> "AwsSnapshotCopyLimitError",
          error |-> NoCopyError,
          message |-> input.answer.error.Message, id |-> None]
    ELSE [raised |-> None, error |-> NoCopyError, message |-> None,
          id |-> input.answer.SnapshotId]

\* copy_snapshot(snapshot_id, source_region): the exception it raises (None
\* when it returns), the ClientError that exception is when it is re-raised,
\* the message of a translated one, and the id it returns.
copy_snapshot(input) ==
    IF input.answer.error # NoCopyError
    THEN IF input.answer.error.Code = "ResourceLimitExceeded"
         THEN [raised |-> "AwsSnapshotCopyLimitError",
               error |-> NoCopyError,
               message |-> input.answer.error.Message, id |-> None]
         ELSE [raised |-> "ClientError", error |-> input.answer.error,
               message |-> None, id |-> None]
    ELSE [raised |-> None, error |-> NoCopyError, message |-> None,
          id |-> input.answer.SnapshotId]

\* One call of copy_snapshot.
CopySnapshot ==
    /\ called.fn = "copy_snapshot"
    /\ ~called.done
    /\ Return(<<[op |-> "copy", snapshot_id |-> called.input.snapshot_id,
                 SourceRegion |-> called.input.source_region]>>,
              copy_snapshot(called.input))
    /\ UNCHANGED <<permVars, copyVars, verifyVars, metricVars>>

\* The ClientError an exception is: the one image.load() raised when
\* check_image_state re-raises it, none otherwise.
ReRaised(raised, load) == IF raised = "ClientError" THEN load.error ELSE NoError

\* One call of check_image_state.
CheckImageState ==
    /\ called.fn = "check_image_state"
    /\ ~called.done
    /\ LET raised == check_image_state(called.input).raised
       IN  Return(<<[op |-> "load"]>>,
                  [raised |-> raised, error |-> ReRaised(raised, called.input)])
    /\ UNCHANGED <<permVars, copyVars, verifyVars, metricVars>>

\* The arguments of get_ami and what image.load() does.
GetAmiInputs ==
    [session : Sessions, image_id : ImageIds, source_region : Regions,
     load : LoadResults]

\* One call of get_ami.
GetAmiAlone ==
    /\ called.fn = "get_ami"
    /\ ~called.done
    /\ LET image == [id |-> called.input.image_id, name |-> <<"X">>,
                     state |-> called.input.load.state]
           got == get_ami(image, called.input.load)
       IN  Return(<<[op |-> "load"]>>,
                  [image |-> got.image, raised |-> got.raised,
                   error |-> ReRaised(got.raised, called.input.load)])
    /\ UNCHANGED <<permVars, copyVars, verifyVars, metricVars>>

(***************************************************************************)
(* Cached gauge metrics                                                    *)
(***************************************************************************)
\* The names a cached metric can have.
MetricNames == {<<"cached_metric", i>> : i \in 1 .. (MaxMetrics + 1)}

\* What CACHED_GAUGE_METRICS_INFO can be: a list of metric infos, no two
\* with the same metric_name.
MetricInfoLists ==
    {l \in UNION {[1 .. n -> [metric_name : MetricNames]] : n \in 0 .. MaxMetrics} :
        \A i, j \in 1 .. Len(l) : i # j => l[i] # l[j]}

\* The empty dict.
EmptyDict == <<>>

NotInitialized == [calls |-> 0, before |-> EmptyDict, created |-> <<>>]

\* Gauge(info.metric_name, ...), the n-th Gauge object of the process.
Gauge(metric_name, n) == [metric_name |-> metric_name, id |-> n]

\* An initialize_cached_metrics that creates a Gauge for every entry on
\* every call.
RECURSIVE initialize_cached_metrics_always_creates(_, _, _)
initialize_cached_metrics_always_creates(infos, custom, created) ==
    IF infos = <<>>
    THEN [custom |-> custom, created |-> created]
    ELSE LET name == Head(infos).metric_name
             gauge == Gauge(name, Len(mock_gauge) + Len(created) + 1)
         IN  initialize_cached_metrics_always_creates(
                Tail(infos),
                [n \in DOMAIN custom \cup {name} |->
                    IF n = name THEN gauge ELSE custom[n]],
                Append(created, name))

\* initialize_cached_metrics(): for every info of CACHED_GAUGE_METRICS_INFO
\* whose metric_name is not yet a key of CUSTOM_GAUGE_METRICS, create a
\* Gauge and keep it under that name. Gives the dict it leaves and the
\* Gauge calls it made.
RECURSIVE initialize_cached_metrics(_, _, _)
initialize_cached_metrics(infos, custom, created) ==
    IF infos = <<>>
    THEN [custom |-> custom, created |-> created]
    ELSE LET name == Head(infos).metric_name
             gauge == Gauge(name, Len(mock_gauge) + Len(created) + 1)
         IN  IF name \in DOMAIN custom
             THEN initialize_cached_metrics(Tail(infos), custom, created)
             ELSE initialize_cached_metrics(
                    Tail(infos),
                    [n \in DOMAIN custom \cup {name} |->
                        IF n = name THEN gauge ELSE custom[n]],
                    Append(created, name))

\* The metric variables while another subsystem runs.
InitMetricsFixed ==
    /\ CACHED_GAUGE_METRICS_INFO = <<>>
    /\ CUSTOM_GAUGE_METRICS = EmptyDict
    /\ mock_gauge = <<>>
    /\ initialized = NotInitialized

\* A process whose CUSTOM_GAUGE_METRICS is empty and whose Gauge class has
\* not been called.
InitMetricsVars ==
    /\ CACHED_GAUGE_METRICS_INFO \in MetricInfoLists
    /\ CUSTOM_GAUGE_METRICS = EmptyDict
    /\ mock_gauge = <<>>
    /\ initialized = NotInitialized

\* One call of initialize_cached_metrics.
InitializeCachedMetrics ==
    /\ initialized.calls < MaxInitCalls
    /\ LET done == initialize_cached_metrics(
                        CACHED_GAUGE_METRICS_INFO, CUSTOM_GAUGE_METRICS, <<>>)
       IN  /\ CUSTOM_GAUGE_METRICS' = done.custom
           /\ mock_gauge' = mock_gauge \o done.created
           /\ initialized' = [calls |-> initialized.calls + 1,
                              before |-> CUSTOM_GAUGE_METRICS,
                              created |-> done.created]
    /\ UNCHANGED CACHED_GAUGE_METRICS_INFO
    /\ UNCHANGED <<permVars, copyVars, verifyVars, inspectVars>>

(***************************************************************************)
(* The specifications                                                      *)
(***************************************************************************)
InitPerm ==
    /\ InitPermVars /\ InitCopyVars /\ InitVerifyFixed /\ InitInspectFixed
    /\ InitMetricsFixed

NextPerm ==
    \E w \in Workers :
        \/ \E s \in Snapshots : AddModify(w, s)
        \/ AddVerify(w)
        \/ \E s \in Snapshots : RemoveModify(w, s)
        \/ RemoveVerify(w)

\* Workers of the task queue call grant and revoke concurrently.
SpecPerm == InitPerm /\ [][NextPerm]_vars

NextSeq ==
    \/ \E s \in Snapshots : AddModify("w1", s)
    \/ AddVerify("w1")
    \/ \E s \in Snapshots : RemoveModify("w1", s)
    \/ RemoveVerify("w1")

\* A single caller: every call runs to its end before the next one starts.
SpecSeq == InitPerm /\ [][NextSeq]_vars

NextDup ==
    \E w \in Workers :
        \/ AddModify(w, "snap-1")
        \/ AddVerify(w)
        \/ RemoveModify(w, "snap-2")
        \/ RemoveVerify(w)

\* Duplicate invocations: every grant is for snap-1 and every revoke for
\* snap-2, called by workers that run concurrently.
SpecDup == InitPerm /\ [][NextDup]_vars

\* The snapshot a worker handles when every worker has a snapshot of its own.
SnapshotOf(w) == IF w = "w1" THEN "snap-1" ELSE "snap-2"

NextDisjoint ==
    \/ \E w \in Workers :
            \/ AddModify(w, SnapshotOf(w))
            \/ AddVerify(w)
            \/ RemoveModify(w, SnapshotOf(w))
            \/ RemoveVerify(w)
    \/ \E load \in LoadResults :
            GetAmi("r1", [account |-> 1], "ami-1", "us-east-1", Rep("X", 1),
                   load)
    \/ \E ok \in BOOLEAN : CopyImage("r1", ok)
    \/ \E ok \in BOOLEAN : CreateTags("r1", ok)

\* Invocations for different resources: each worker grants and revokes on a
\* snapshot of its own while a request copies an image.
SpecDisjoint == InitPerm /\ [][NextDisjoint]_vars

InitCopy ==
    /\ InitCopyVars /\ InitPermFixed /\ InitVerifyFixed /\ InitInspectFixed
    /\ InitMetricsFixed

NextCopy ==
    \E r \in Requests :
        \/ \E session \in Sessions, image_id \in ImageIds,
              source_region \in Regions, name \in ImageNames,
              load \in LoadResults :
                GetAmi(r, session, image_id, source_region, name, load)
        \/ \E ok \in BOOLEAN : CopyImage(r, ok)
        \/ \E ok \in BOOLEAN : CreateTags(r, ok)

\* Requests to copy an image, dispatched concurrently.
SpecCopy == InitCopy /\ [][NextCopy]_vars

InitVerify ==
    /\ InitVerifyVars /\ InitPermFixed /\ InitCopyVars /\ InitInspectFixed
    /\ InitMetricsFixed

NextVerify ==
    \/ \E account_arn \in Arns, probe \in BOOLEAN :
            VerifyAccountPermissions(account_arn, probe)
    \/ \E source_id \in SourceIds \cup {""} : AvailabilityCheck(source_id)

\* Verification tasks and availability checks, one at a time.
SpecVerify == InitVerify /\ [][NextVerify]_vars

\* The state codes is_running is asked about: the six of InstanceState and
\* some that are none of them.
StateCodeInputs ==
    {pending, running, shutting_down, terminated, stopping, stopped}
    \cup {-1, 1, 15, 17, 272}

InitInspectVars ==
    called \in Calling("describe_instances_everywhere", InstancePopulations)
           \cup Calling("is_running", StateCodeInputs)
           \cup Calling("create_volume", CreateVolumeInputs)
           \cup Calling("check_volume_state", VolumeStates)
           \cup Calling("get_ami_snapshot_id", Amis)
           \cup Calling("describe_image", DescribeImageInputs)
           \cup Calling("copy_snapshot", CopySnapshotInputs)
           \cup Calling("check_image_state", LoadResults)
           \cup Calling("get_ami", GetAmiInputs)

InitInspect ==
    /\ InitInspectVars /\ InitPermFixed /\ InitCopyVars /\ InitVerifyFixed
    /\ InitMetricsFixed

NextInspect ==
    \/ DescribeInstancesEverywhere
    \/ IsRunning
    \/ CreateVolume
    \/ CheckVolumeState
    \/ GetAmiSnapshotId
    \/ DescribeImage
    \/ CopySnapshot
    \/ CheckImageState
    \/ GetAmiAlone

\* Single calls of the functions that describe or check one resource.
SpecInspect == InitInspect /\ [][NextInspect]_vars

InitMetrics ==
    /\ InitMetricsVars /\ InitPermFixed /\ InitCopyVars /\ InitVerifyFixed
    /\ InitInspectFixed

NextMetrics == InitializeCachedMetrics

\* InternalAppConfig.ready and later callers initialise the cached metrics.
SpecMetrics == InitMetrics /\ [][NextMetrics]_vars

(***************************************************************************)
(* Claims about the snapshot permission calls                              *)
(***************************************************************************)

\* C1: add_snapshot_ownership ends only by its read-back step, which follows
\* its modify_attribute call, and it returns success exactly when the primary
\* account id is in the createVolumePermission list AWS holds at the moment
\* of that read-back; otherwise it raises AwsSnapshotNotOwnedError. The write
\* alone never makes the call succeed.
C1_GrantSucceedsOnlyOnReadBack ==
    [][\A w \in Workers :
        (pc[w] = "add_modified" /\ pc'[w] # "add_modified") =>
            /\ lastCall'[w].op = "add"
            /\ lastCall'[w].response = perms[snapshot[w]]
            /\ lastCall'[w].result =
                    IF PrimaryAccountId \in Range(perms[snapshot[w]])
                    THEN "ok"
                    ELSE "AwsSnapshotNotOwnedError"]_vars

\* C1 witness: a grant whose write was acknowledged and whose read-back did
\* not show the primary account id: it raised AwsSnapshotNotOwnedError.
C1_Witness ==
    \E w \in Workers :
        /\ lastCall[w].op = "add"
        /\ lastCall[w].result = "AwsSnapshotNotOwnedError"
        /\ PrimaryAccountId \notin Range(lastCall[w].response)

C3_GrantIdempotent ==
    (/\ pc["w1"] = "idle"
     /\ lastCall["w1"].op = "add"
     /\ lastCall["w1"].before # "none") =>
        /\ lastCall["w1"].before = "ok"
        /\ lastCall["w1"].result = "ok"
        /\ Entries(perms[lastCall["w1"].snap], PrimaryAccountId) = 1

\* C3 witness: two grants in sequence on a snapshot that another account
\* holds a permission on as well.
C3_Witness ==
    /\ pc["w1"] = "idle"
    /\ lastCall["w1"].op = "add"
    /\ lastCall["w1"].before = "ok"
    /\ Len(perms[lastCall["w1"].snap]) > 1

(***************************************************************************)
(* Claims about the image copy                                             *)
(***************************************************************************)
CallNames(r) == [i \in 1 .. Len(calls[r]) |-> calls[r][i].call]

\* The result of the one image.load() a request made.
Loaded(r) == calls[r][1].result

LoadedState(r, states) ==
    /\ Loaded(r).error = NoError
    /\ Loaded(r).data # None
    /\ Loaded(r).state \in states

\* C4: the AWS calls of one copy_ami request are issued in the order load,
\* copy_image, create_tags, each at most once; copy_image is issued only
\* after the load showed the image in state "available", and create_tags only
\* after copy_image answered with a new image id, which is the resource it
\* tags.
C4_StepsSequential ==
    \A r \in Requests :
        /\ CallNames(r) \in
                {<<>>, <<"load">>, <<"load", "copy_image">>,
                 <<"load", "copy_image", "create_tags">>}
        /\ Len(calls[r]) >= 2 =>
                /\ LoadedState(r, {"available"})
                /\ calls[r][2].SourceImageId = calls[r][1].image_id
        /\ Len(calls[r]) >= 3 =>
                /\ calls[r][2].result = NewImageId(r)
                /\ calls[r][3].Resources = <<calls[r][2].result>>

\* C4 witness: a request that went through all three calls and returned.
C4_Witness ==
    \E r \in Requests :
        /\ Len(calls[r]) = 3
        /\ outcome[r] = [kind |-> "return", value |-> NewImageId(r)]

CannotLoadOrFailed(r) ==
    \/ Loaded(r).error \in {e \in ErrorCodes : EndsWithNotFound(e)}
    \/ Loaded(r).error = NoError /\ Loaded(r).data = None
    \/ LoadedState(r, {"failed"})

\* C6: when the source image cannot be loaded (a not-found error, or no
\* metadata) or has state "failed", copy_ami returns None, raises nothing and
\* issues no copy_image and no create_tags call: its load is its only call
\* and AWS holds no copy for the request.
C6_NoImageIdForUnavailable ==
    \A r \in Requests :
        (calls[r] # <<>> /\ CannotLoadOrFailed(r)) =>
            /\ outcome[r] = [kind |-> "return", value |-> None]
            /\ cpc[r] = "returned"
            /\ CallNames(r) = <<"load">>
            /\ awsImages[r] = NoImage

\* C6 witness: a request for an image in state "failed" that returned None.
C6_Witness ==
    \E r \in Requests :
        /\ calls[r] # <<>>
        /\ LoadedState(r, {"failed"})
        /\ outcome[r].kind = "return"

\* C7: when the source image loads and its state is neither "available" nor
\* "failed", copy_ami raises ImageNotReadyException after its single load:
\* it returns nothing, loads the image no second time and issues no
\* copy_image call.
C7_NotReadySurfaces ==
    \A r \in Requests :
        (calls[r] # <<>> /\ LoadedState(r, ImageStates \ {"available", "failed"})) =>
            /\ outcome[r] = [kind |-> "raise", value |-> "ImageNotReadyException"]
            /\ cpc[r] = "raised"
            /\ CallNames(r) = <<"load">>
            /\ awsImages[r] = NoImage

\* C7 witness: a request for a pending image that raised.
C7_Witness ==
    \E r \in Requests :
        /\ calls[r] # <<>>
        /\ LoadedState(r, {"pending"})
        /\ outcome[r].kind = "raise"

\* C8: check_image_state raises AwsImageError with its "cannot be loaded"
\* message for a load that fails with a not-found error, AwsImageError with
\* its "deregistered" message for a load that yields no metadata, nothing for
\* state "available", AwsImageError with its "has state" message for state
\* "failed" and ImageNotReadyException for every other state; the terminal
\* failures and the retryable one differ in the class of the exception.
C8_ImageStateClassified ==
    \A r \in Requests :
        calls[r] # <<>> =>
            /\ Loaded(r).error \in {<<"InvalidAMIID", "NotFound">>} =>
                    checked[r] = [raised |-> "AwsImageError",
                                  message |-> "cannot be loaded because"]
            /\ (Loaded(r).error = NoError /\ Loaded(r).data = None) =>
                    checked[r] = [raised |-> "AwsImageError",
                                  message |-> "probably been deregistered"]
            /\ LoadedState(r, {"available"}) => checked[r].raised = None
            /\ LoadedState(r, {"failed"}) =>
                    checked[r] = [raised |-> "AwsImageError",
                                  message |-> "has state"]
            /\ LoadedState(r, ImageStates \ {"available", "failed"}) =>
                    checked[r] = [raised |-> "ImageNotReadyException",
                                  message |-> "has state"]
            /\ (checked[r].raised = "ImageNotReadyException")
                    <=> LoadedState(r, ImageStates \ {"available", "failed"})

\* C8 witness: a load that yielded no metadata, classified as unavailable.
C8_Witness ==
    \E r \in Requests :
        /\ calls[r] # <<>>
        /\ Loaded(r).error = NoError
        /\ Loaded(r).data = None
        /\ checked[r].raised = "AwsImageError"

(***************************************************************************)
(* Claims about the account verification                                   *)
(***************************************************************************)

\* C9: when the permission probe fails, verify_account_permissions returns
\* False and raises nothing; if a cloud account is stored for the ARN its
\* disable() is called exactly once and leaves it disabled; if none is
\* stored, disable() is never called, no account changes, and the "Cannot
\* disable" diagnostic is logged right after the "failed validation" one.
C9_FailedProbeDisables ==
    (verified.account_arn # None /\ ~verified.probe) =>
        /\ verified.effect.valid = FALSE
        /\ verified.effect.raised = None
        /\ verified.existed =>
                /\ verified.effect.disabled = 1
                /\ ~verified.effect.accounts[verified.account_arn].is_enabled
        /\ ~verified.existed =>
                /\ verified.effect.disabled = 0
                /\ verified.effect.accounts = verified.before
                /\ verified.effect.log = <<FailedValidation, CannotDisable>>

\* C9 witness: a failed probe for an ARN no cloud account is stored for.
C9_Witness ==
    /\ verified.account_arn # None
    /\ ~verified.probe
    /\ ~verified.existed
    /\ verified.effect.valid = FALSE

\* C10: when the permission probe succeeds, verify_account_permissions
\* returns True and does nothing else: it looks no account up, calls no
\* disable(), logs nothing and leaves every stored account as it was.
C10_VerifiedHasNoSideEffects ==
    (verified.account_arn # None /\ verified.probe) =>
        /\ verified.effect.valid = TRUE
        /\ verified.effect.raised = None
        /\ verified.effect.lookups = 0
        /\ verified.effect.disabled = 0
        /\ verified.effect.log = <<>>
        /\ verified.effect.accounts = verified.before

\* C10 witness: a successful probe for an ARN whose account is enabled.
C10_Witness ==
    /\ verified.account_arn # None
    /\ verified.probe
    /\ verified.existed
    /\ verified.before[verified.account_arn].is_enabled
    /\ verified.effect.valid = TRUE

\* The create_tags call of the request was answered with an error.
TaggingFailed(r) ==
    /\ Len(calls[r]) = 3
    /\ calls[r][3].result = "ClientError"

\* The three tags copy_ami puts on the copy of a request.
ExpectedTags(r) ==
    {[Key |-> "Name", Value |-> calls[r][2].Name],
     [Key |-> "cloudigrade original image id", Value |-> args[r].image_id],
     [Key |-> "cloudigrade original image name", Value |-> old_image[r].name]}

\* C11 as stated: copy_ami returns a new image id only after the copy carries
\* all three tags, and when tagging fails the attempt fails with an error,
\* returns no id and leaves no copied-but-untagged image of the request.
C11_NoPartialSuccess ==
    \A r \in Requests :
        /\ (outcome[r].kind = "return" /\ outcome[r].value # None) =>
                /\ awsImages[r].ImageId = outcome[r].value
                /\ awsImages[r].Tags = ExpectedTags(r)
        /\ TaggingFailed(r) =>
                /\ outcome[r].kind = "raise"
                /\ awsImages[r].ImageId = None

\* C11, amended: copy_ami returns a new image id only after the copy carries
\* all three tags (Name equal to the truncated copy name, the source image id
\* and the source image name); when tagging fails copy_ami raises the client
\* error and returns no id, and the copy that copy_image created stays at
\* AWS, untagged.
C11_TaggedBeforeReturn ==
    \A r \in Requests :
        /\ (outcome[r].kind = "return" /\ outcome[r].value # None) =>
                /\ awsImages[r].ImageId = outcome[r].value
                /\ awsImages[r].Tags = ExpectedTags(r)
                /\ calls[r][3].result = "ok"
        /\ TaggingFailed(r) =>
                /\ outcome[r] = [kind |-> "raise", value |-> "ClientError"]
                /\ awsImages[r].ImageId = NewImageId(r)
                /\ awsImages[r].Tags = {}

\* C11 witness: a request whose tagging failed: it raised, and its copy is
\* at AWS without a tag.
C11_Witness ==
    \E r \in Requests :
        /\ TaggingFailed(r)
        /\ outcome[r].kind = "raise"
        /\ awsImages[r].ImageId # None
        /\ awsImages[r].Tags = {}

\* The i-th character of "cloudigrade reference copy (" + name + ")".
FormattedChar(name, i) ==
    IF i <= Len(CopyNamePrefix) THEN CopyNamePrefix[i]
    ELSE IF i <= Len(CopyNamePrefix) + Len(name) THEN name[i - Len(CopyNamePrefix)]
    ELSE ")"

\* C12: the name given to the copy and the value of its "Name" tag are the
\* same string: "cloudigrade reference copy (" followed by the source name
\* and ")", cut after 128 characters. It is never longer than 128
\* characters, it starts with the marker, and for a source name of 100
\* characters or more (200 among them) it is exactly 128 characters long.
C12_CopyNameTruncated ==
    \A r \in Requests :
        Len(calls[r]) >= 2 =>
            LET name == old_image[r].name
                new_name == calls[r][2].Name
                full == Len(CopyNamePrefix) + Len(name) + 1
            IN  /\ Len(new_name) = IF full <= 128 THEN full ELSE 128
                /\ Len(new_name) <= 128
                /\ \A i \in 1 .. Len(new_name) : new_name[i] = FormattedChar(name, i)
                /\ SubSeq(new_name, 1, 28) = CopyNamePrefix
                /\ Len(name) >= 100 => Len(new_name) = 128
                /\ Len(calls[r]) = 3 =>
                        /\ [Key |-> "Name", Value |-> new_name] \in calls[r][3].Tags
                        /\ \A tag \in calls[r][3].Tags :
                                tag.Key = "Name" => tag.Value = new_name
                /\ awsImages[r].ImageId # None => awsImages[r].Name = new_name

\* C12 witness: the tagged copy of an image with a 200-character name: its
\* "Name" tag is 128 characters long.
C12_Witness ==
    \E r \in Requests :
        /\ Len(old_image[r].name) = 200
        /\ \E tag \in awsImages[r].Tags :
                tag.Key = "Name" /\ Len(tag.Value) = 128

(***************************************************************************)
(* Claims about the single calls                                           *)
(***************************************************************************)
\* C13: describe_instances_everywhere returns a mapping with one key for
\* every region known to the session, an empty list for a region without
\* instances; no returned instance has state code 48 (terminated), and every
\* instance of a region that is not terminated is in that region's list,
\* exactly once.
C13_NoTerminatedInstances ==
    called.fn = "describe_instances_everywhere" /\ called.done =>
        /\ DOMAIN called.result = KnownRegions
        /\ \A region \in KnownRegions :
            LET list == called.result[region]
                here == {i \in 1 .. Len(called.input) :
                            called.input[i].region = region}
            IN  /\ \A k \in 1 .. Len(list) : list[k].State # <<48>>
                /\ \A i \in here :
                        called.input[i].State # <<48>> =>
                            Cardinality({k \in 1 .. Len(list) :
                                list[k].InstanceId = i
                                /\ list[k].State = called.input[i].State}) = 1
                /\ \A k \in 1 .. Len(list) : list[k].InstanceId \in here
                /\ here = {} => list = <<>>

\* C13 witness: a region without instances next to a region where a
\* terminated instance and a running one share a reservation.
C13_Witness ==
    /\ called.fn = "describe_instances_everywhere"
    /\ called.done
    /\ called.result["us-east-2"] = <<>>
    /\ \A i \in 1 .. Len(called.input) : called.input[i].region = "us-east-1"
    /\ \E i, j \in 1 .. Len(called.input) :
            /\ called.input[i].State = <<48>>
            /\ called.input[j].State = <<16>>
            /\ called.input[i].reservation = called.input[j].reservation
    /\ Len(called.result["us-east-1"]) = 1

\* C20: for every instance state code, the six codes of AWS and any other
\* integer, is_running answers true if and only if the code is 16; pending
\* (0) is not running.
C20_RunningIsCode16 ==
    called.fn = "is_running" /\ called.done =>
        /\ called.result \in BOOLEAN
        /\ called.result <=> (called.input = 16)
        /\ called.input = 0 => called.result = FALSE

\* C20 witness: is_running asked about pending.
C20_Witness ==
    /\ called.fn = "is_running"
    /\ called.done
    /\ called.input = 0
    /\ called.result = FALSE

\* C14: create_volume issues the create_volume call to AWS only when the
\* snapshot's state is "completed" at check_snapshot_state; for state "error"
\* it fails with AwsSnapshotError (SnapshotFailed), for every other state
\* with SnapshotNotReadyException (SnapshotNotReady), and in both failures
\* it issues no create_volume call and returns no volume id.
C14_VolumeOnlyFromCompleted ==
    called.fn = "create_volume" /\ called.done =>
        LET state == called.input.state
            created == {k \in 1 .. Len(called.aws) :
                            called.aws[k].op = "create_volume"}
        IN  /\ created # {} => state = "completed"
            /\ called.result.id # None => state = "completed"
            /\ state = "completed" =>
                    /\ Cardinality(created) = 1
                    /\ called.aws[1].SnapshotId = called.input.snapshot_id
                    /\ called.aws[1].AvailabilityZone = called.input.zone
            /\ state = "error" =>
                    called.result.raised = "AwsSnapshotError" /\ created = {}
            /\ state \notin {"completed", "error"} =>
                    /\ called.result.raised = "SnapshotNotReadyException"
                    /\ created = {}

\* C14 witness: a volume created from a completed snapshot.
C14_Witness ==
    /\ called.fn = "create_volume"
    /\ called.done
    /\ called.input.state = "completed"
    /\ called.result.id = "vol-1"
    /\ Len(called.aws) = 1

\* C15: check_volume_state returns for state "available", raises
\* AwsVolumeNotReadyError (VolumeNotReady) for "creating" and AwsVolumeError
\* (VolumeUnusable) for "in-use", "deleting", "deleted" and "error"; of the
\* states of a volume, "available" is the only one it returns for.
C15_VolumeStateClassified ==
    called.fn = "check_volume_state" /\ called.done =>
        /\ called.input = "available" => called.result = None
        /\ called.input = "creating" =>
                called.result = "AwsVolumeNotReadyError"
        /\ called.input \in {"in-use", "deleting", "deleted", "error"} =>
                called.result = "AwsVolumeError"
        /\ called.result = None => called.input = "available"

\* C15 witness: an attached volume is refused as unusable.
C15_Witness ==
    /\ called.fn = "check_volume_state"
    /\ called.done
    /\ called.input = "in-use"
    /\ called.result = "AwsVolumeError"

\* C18: get_ami_snapshot_id answers from the block device mapping whose
\* device name is the image's root device name and from no other: it returns
\* the snapshot id of the first such mapping, the empty string when that
\* mapping has no Ebs snapshot id; for the mappings /dev/sdb and /dev/sda1
\* with snap-1 and the root device /dev/sda1 it returns snap-1.
C18_SnapshotIdFromRootMapping ==
    called.fn = "get_ami_snapshot_id" /\ called.done =>
        LET mappings == called.input.block_device_mappings
            roots == {i \in 1 .. Len(mappings) :
                        mappings[i].DeviceName = called.input.root_device_name}
        IN  /\ roots # {} =>
                LET first == CHOOSE i \in roots : \A j \in roots : i <= j
                IN  IF mappings[first].Ebs \in {<<<<s>>>> : s \in Snapshots}
                    THEN called.result = mappings[first].Ebs[1][1]
                    ELSE called.result = ""
            /\ called.result \in Snapshots =>
                    \E i \in roots : mappings[i].Ebs = <<<<called.result>>>>
            /\ (/\ called.input.root_device_name = "/dev/sda1"
                /\ mappings = <<[DeviceName |-> "/dev/sdb", Ebs |-> <<>>],
                                [DeviceName |-> "/dev/sda1",
                                 Ebs |-> <<<<"snap-1">>>>]>>)
                    => called.result = "snap-1"

\* C18 witness: the root mapping comes second, after a mapping of another
\* device that has a snapshot of its own.
C18_Witness ==
    /\ called.fn = "get_ami_snapshot_id"
    /\ called.done
    /\ called.input.root_device_name = "/dev/sda1"
    /\ called.input.block_device_mappings =
            <<[DeviceName |-> "/dev/sdb", Ebs |-> <<<<"snap-2">>>>],
              [DeviceName |-> "/dev/sda1", Ebs |-> <<<<"snap-1">>>>]>>
    /\ called.result = "snap-1"

\* C19: when describe_images answers with no image for the requested id,
\* describe_image fails with an exception of the AwsImageError class
\* (ImageUnavailable) and returns no descriptor.
C19_EmptyBatchIsImageUnavailable ==
    called.fn = "describe_image" /\ called.done /\ called.input.Images = <<>> =>
        /\ called.result.image = NoDescriptor
        /\ IsAwsImageError(called.result.raised)

\* C19: what the code does on an empty answer: it returns no descriptor and
\* the failure is the IndexError of the list access.
C19_EmptyBatchIsIndexError ==
    called.fn = "describe_image" /\ called.done /\ called.input.Images = <<>> =>
        /\ called.result.image = NoDescriptor
        /\ called.result.raised = "IndexError"

\* C19 witness: describe_image called for an image AWS describes nothing of.
C19_Witness ==
    /\ called.fn = "describe_image"
    /\ called.done
    /\ called.input.Images = <<>>
    /\ called.result.raised = "IndexError"

(***************************************************************************)
(* Claims about concurrent invocations                                     *)
(***************************************************************************)
\* The entries of a permission list that belong to other accounts.
OtherEntries(list) == SelectSeq(list, LAMBDA u : u # PrimaryAccountId)

\* C16: when grants for one snapshot (snap-1) and revokes for one snapshot
\* (snap-2) are invoked concurrently and repeatedly, then under every
\* interleaving of their modify_attribute and describe_attribute calls every
\* invocation returns success, and from the first modify_attribute on the
\* permission list is what a single invocation leaves: exactly one entry for
\* the primary account after grant, none after revoke, the entries of other
\* accounts as they were.
C16_DuplicatesSafe ==
    [][/\ \A w \in Workers :
            lastCall'[w].op # "none" => lastCall'[w].result = "ok"
       /\ (\E w \in Workers :
                pc'[w] = "add_modified" \/ lastCall'[w].op = "add") =>
            Entries(perms'["snap-1"], PrimaryAccountId) = 1
       /\ (\E w \in Workers :
                pc'[w] = "remove_modified" \/ lastCall'[w].op = "remove") =>
            Entries(perms'["snap-2"], PrimaryAccountId) = 0
       /\ \A s \in Snapshots :
            OtherEntries(perms'[s]) = OtherEntries(perms[s])]_vars

\* C16 witness: a second grant for snap-1 has sent its modify_attribute
\* while the first one has not yet read back, and the list, which another
\* account is on as well, holds one entry for the primary account.
C16_Witness ==
    /\ pc["w1"] = "add_modified"
    /\ pc["w2"] = "add_modified"
    /\ snapshot["w1"] = "snap-1"
    /\ snapshot["w2"] = "snap-1"
    /\ Len(perms["snap-1"]) > 1
    /\ Entries(perms["snap-1"], PrimaryAccountId) = 1

\* What copy_ami has returned or raised, told from the answers AWS gave to
\* the calls of this one request.
OutcomeAlone(r) ==
    LET n == Len(calls[r])
    IN  IF n = 0
        THEN NoOutcome
        ELSE IF n = 1
        THEN LET raised == check_image_state(calls[r][1].result).raised
             IN  IF raised = None
                 THEN NoOutcome
                 ELSE IF IsAwsImageError(raised)
                 THEN [kind |-> "return", value |-> None]
                 ELSE [kind |-> "raise", value |-> raised]
        ELSE IF calls[r][n].result = "ClientError"
        THEN [kind |-> "raise", value |-> "ClientError"]
        ELSE IF n = 2
        THEN NoOutcome
        ELSE [kind |-> "return", value |-> NewImageId(r)]

\* The state in process memory and in AWS that belongs to a worker's call.
StateOfWorker(w) == <<pc[w], snapshot[w], lastCall[w], perms[SnapshotOf(w)]>>

\* The state in process memory and in AWS that belongs to a copy request.
StateOfRequest(r) ==
    <<cpc[r], args[r], checked[r], old_image[r], new_image[r], calls[r],
      outcome[r], awsImages[r]>>

InfoNames ==
    {CACHED_GAUGE_METRICS_INFO[i].metric_name :
        i \in 1 .. Len(CACHED_GAUGE_METRICS_INFO)}

\* C21: starting from an empty CUSTOM_GAUGE_METRICS, the first call of
\* initialize_cached_metrics creates exactly one Gauge for every entry of
\* CACHED_GAUGE_METRICS_INFO and keeps it in CUSTOM_GAUGE_METRICS under the
\* entry's name; every later call creates no Gauge and leaves
\* CUSTOM_GAUGE_METRICS as it was.
C21_GaugesCreatedOnce ==
    /\ initialized.calls = 1 =>
        /\ initialized.before = EmptyDict
        /\ Len(initialized.created) = Len(CACHED_GAUGE_METRICS_INFO)
        /\ \A name \in InfoNames :
                Cardinality({k \in 1 .. Len(initialized.created) :
                                initialized.created[k] = name}) = 1
    /\ initialized.calls > 1 =>
        /\ initialized.created = <<>>
        /\ CUSTOM_GAUGE_METRICS = initialized.before
    /\ initialized.calls >= 1 =>
        /\ DOMAIN CUSTOM_GAUGE_METRICS = InfoNames
        /\ Len(mock_gauge) = Len(CACHED_GAUGE_METRICS_INFO)
        /\ \A name \in InfoNames :
                /\ CUSTOM_GAUGE_METRICS[name].metric_name = name
                /\ mock_gauge[CUSTOM_GAUGE_METRICS[name].id] = name

\* C21 witness: a second call in a process that declares several metrics:
\* it made no Gauge call and the dict holds the Gauges of the first call.
C21_Witness ==
    /\ initialized.calls = 2
    /\ Len(CACHED_GAUGE_METRICS_INFO) > 1
    /\ initialized.created = <<>>
    /\ DOMAIN initialized.before = InfoNames
    /\ CUSTOM_GAUGE_METRICS = initialized.before

(***************************************************************************)
(* Claims about AWS client errors                                          *)
(***************************************************************************)
\* C22: a ClientError is translated only where the code names its error
\* code, and is otherwise re-raised as the error AWS raised: copy_snapshot
\* raises AwsSnapshotCopyLimitError for the code "ResourceLimitExceeded" and
\* re-raises every other ClientError; check_image_state raises AwsImageError
\* for a code that ends with ".NotFound" and re-raises every other
\* ClientError, which get_ami lets through instead of returning None. No
\* call that met a ClientError returns from copy_snapshot or
\* check_image_state as if there had been none.
C22_ClientErrorsTranslatedOrReRaised ==
    /\ called.fn = "copy_snapshot" /\ called.done =>
        LET e == called.input.answer.error
        IN  IF e = NoCopyError
            THEN /\ called.result.raised = None
                 /\ called.result.id = called.input.answer.SnapshotId
            ELSE IF e.Code = "ResourceLimitExceeded"
            THEN /\ called.result.raised = "AwsSnapshotCopyLimitError"
                 /\ called.result.message = e.Message
            ELSE /\ called.result.raised = "ClientError"
                 /\ called.result.error = e
    /\ called.fn = "check_image_state" /\ called.done =>
        LET code == called.input.error
        IN  code # NoError =>
                IF Len(code) >= 2 /\ code[Len(code)] = "NotFound"
                THEN called.result.raised = "AwsImageError"
                ELSE /\ called.result.raised = "ClientError"
                     /\ called.result.error = code
    /\ called.fn = "get_ami" /\ called.done =>
        LET code == called.input.load.error
        IN  code # NoError =>
                IF Len(code) >= 2 /\ code[Len(code)] = "NotFound"
                THEN /\ called.result.raised = None
                     /\ called.result.image = NoneImage
                ELSE /\ called.result.raised = "ClientError"
                     /\ called.result.error = code
                     /\ called.result.image = NoneImage

\* C22 witness: copy_snapshot met a ClientError whose code is not the one it
\* names, although it speaks of an exceeded limit, and re-raised it.
C22_Witness ==
    /\ called.fn = "copy_snapshot"
    /\ called.done
    /\ called.input.answer.error.Code = "SnapshotLimitExceeded"
    /\ called.result.raised = "ClientError"
    /\ called.result.error = called.input.answer.error

====
